---- MODULE Spec2Model ----
(***************************************************************************)
(* date-bot: one "check" invocation polls the appointment site for the     *)
(* days of next month that have free slots, drops the days already in      *)
(* history.json, asks the slots of every new day, sends one Telegram       *)
(* message and rewrites history.json.  The model follows main.go: one      *)
(* action per blocking call of handleCheck, the pure helpers as operators. *)
(***************************************************************************)
EXTENDS Integers, Sequences, FiniteSets, TLC

\* ---------------------------------------------------------------- bounds
\* Largest day number the remote site reports.
MaxDay == 2
\* Largest number of interior tokens in a response of the days endpoint.
MaxDates == 2
\* Largest length of the history found on disk before the first run.
MaxHist == 2

\* ------------------------------------------------------------- utilities
Range(s) == {s[i] : i \in DOMAIN s}

NoDup(s) == \A i, j \in DOMAIN s : i # j => s[i] # s[j]

IsPrefix(s, t) == Len(s) <= Len(t) /\ \A i \in DOMAIN s : s[i] = t[i]

SeqsUpTo(S, n) == UNION {[1..k -> S] : k \in 0..n}

Days == 1..MaxDay

\* ------------------------------------------------------------ type Date
Date(m, d) == [Month |-> m, Day |-> d]

\* ---------------------------------------------------------- checkHistory
\* Variants with a slip in the loop: one stops after the first element, one
\* never looks at the last.
checkHistoryFirstOnly(date, history) ==
    Len(history) > 0 /\ history[1] = date

checkHistorySkipLast(date, history) ==
    \E i \in 1..(Len(history) - 1) : history[i] = date

checkHistory(date, history) ==
    \E i \in DOMAIN history : history[i] = date

\* --------------------------------------------- history.json (encoding/json)
\* The file holds a JSON array of objects keyed by the struct tags.
\* Variant: the two tags exchanged on the way out.
MarshalSwapped(history) ==
    [i \in DOMAIN history |-> [month |-> history[i].Day, day |-> history[i].Month]]

Marshal(history) ==
    [i \in DOMAIN history |-> [month |-> history[i].Month, day |-> history[i].Day]]

Unmarshal(data) ==
    [i \in DOMAIN data |-> Date(data[i].month, data[i].day)]

FileOk(h) == [status |-> "ok", data |-> Marshal(h)]

FileMissing == [status |-> "missing", data |-> <<>>]

\* A file whose bytes are not a JSON array (a truncated write, for one).
FileCorrupt == [status |-> "corrupt", data |-> <<>>]

\* readHistory: a missing file is a read error, undecodable bytes an
\* unmarshal error; privileged tells whether a file without permission bits
\* can still be opened.
readHistory(f, privileged) ==
    IF f.status = "ok" \/ (f.status = "noperm" /\ privileged)
    THEN [err |-> FALSE, history |-> Unmarshal(f.data)]
    ELSE [err |-> TRUE, history |-> <<>>]

\* writeHistory: ioutil.WriteFile(name, data, 0) opens with
\* O_WRONLY|O_CREATE|O_TRUNC and permission bits 0, then writes.  io is the
\* outcome of the system calls: "ok", "open_fail" (nothing touched) or
\* "partial" (truncated, then the write failed).
\* Variant: the error comes after the bytes are on disk.
writeHistoryLateErr(history, f, io) ==
    CASE io = "open_fail" -> [err |-> TRUE, file |-> f]
      [] OTHER ->
           [err  |-> io # "ok",
            file |-> [status |-> IF f.status \in {"missing", "noperm"} THEN "noperm"
                                 ELSE "ok",
                      data   |-> Marshal(history)]]

writeHistory(history, f, io) ==
    CASE io = "open_fail" -> [err |-> TRUE, file |-> f]
      [] io = "partial"   -> [err |-> TRUE, file |-> FileCorrupt]
      [] OTHER ->
           [err  |-> FALSE,
            file |-> [status |-> IF f.status \in {"missing", "noperm"} THEN "noperm"
                                 ELSE "ok",
                      data   |-> Marshal(history)]]

WriteOutcomes == {"ok", "open_fail", "partial"}

\* ------------------------------------------------- strconv.Atoi, numerals
Digits == <<"0", "1", "2", "3", "4", "5", "6", "7", "8", "9">>

IsDigit(c) == \E k \in DOMAIN Digits : Digits[k] = c

DigitVal(c) == (CHOOSE k \in DOMAIN Digits : Digits[k] = c) - 1

RECURSIVE DecVal(_)
DecVal(s) ==
    IF Len(s) = 0 THEN 0
    ELSE 10 * DecVal(SubSeq(s, 1, Len(s) - 1)) + DigitVal(s[Len(s)])

\* Atoi over a sequence of characters: an optional sign, then one or more
\* decimal digits; anything else is a syntax error.
Atoi(s) ==
    LET signed == Len(s) > 0 /\ s[1] \in {"+", "-"}
        body   == IF signed THEN Tail(s) ELSE s
    IN  IF Len(body) = 0 \/ \E i \in DOMAIN body : ~IsDigit(body[i])
        THEN [err |-> TRUE, val |-> 0]
        ELSE [err |-> FALSE,
              val |-> IF signed /\ s[1] = "-" THEN 0 - DecVal(body) ELSE DecVal(body)]

\* The decimal numeral of a day number, as the site prints it.
Numeral(d) ==
    IF d < 10 THEN <<Digits[d + 1]>>
    ELSE <<Digits[(d \div 10) + 1], Digits[(d % 10) + 1]>>

\* ------------------------------------------------- strings.Split(s, ",")
RECURSIVE Split(_)
Split(s) ==
    IF \A i \in DOMAIN s : s[i] # ","
    THEN <<s>>
    ELSE LET k == CHOOSE i \in DOMAIN s :
                     s[i] = "," /\ \A j \in 1..(i - 1) : s[j] # ","
         IN  <<SubSeq(s, 1, k - 1)>> \o Split(SubSeq(s, k + 1, Len(s)))

\* -------------------------------------------------------- availableDates
\* resp is the answer of get(url): a transport error, or the body as a
\* sequence of characters.
\* Variant: the slice keeps the last token (raw[1:] instead of
\* raw[1 : len(raw)-1]).
availableDatesKeepLast(month, resp) ==
    LET raw      == Split(resp.body)
        interior == SubSeq(raw, 2, Len(raw))
    IN  IF resp.err THEN [err |-> TRUE, dates |-> <<>>]
        ELSE IF Len(raw) < 2 THEN [err |-> FALSE, dates |-> <<>>]
        ELSE IF \E i \in DOMAIN interior : Atoi(interior[i]).err
        THEN [err |-> TRUE, dates |-> <<>>]
        ELSE [err |-> FALSE,
              dates |-> [i \in DOMAIN interior |->
                            Date(month, Atoi(interior[i]).val)]]

availableDates(month, resp) ==
    LET raw      == Split(resp.body)
        interior == SubSeq(raw, 2, Len(raw) - 1)
    IN  IF resp.err THEN [err |-> TRUE, dates |-> <<>>]
        ELSE IF Len(raw) < 2 THEN [err |-> FALSE, dates |-> <<>>]
        ELSE IF \E i \in DOMAIN interior : Atoi(interior[i]).err
        THEN [err |-> TRUE, dates |-> <<>>]
        ELSE [err |-> FALSE,
              dates |-> [i \in DOMAIN interior |->
                            Date(month, Atoi(interior[i]).val)]]

\* -------------------------------------------------------- availableHours
\* The body of the hours endpoint as a sequence of fragments; the regexp
\* value="[0-9\-:]+" matches the fragments listed here and no other.
Clean(frag) ==
    CASE frag = "value=\"09:00-09:20\"" -> " - 09:00-09:20"
      [] frag = "value=\"10:00-10:20\"" -> " - 10:00-10:20"
      [] OTHER -> ""

Matches(frag) == Clean(frag) # ""

RECURSIVE FindAll(_)
FindAll(frags) ==
    IF Len(frags) = 0 THEN <<>>
    ELSE IF Matches(Head(frags)) THEN <<Head(frags)>> \o FindAll(Tail(frags))
    ELSE FindAll(Tail(frags))

availableHours(date, resp) ==
    LET matches == FindAll(resp.body)
    IN  IF resp.err THEN [err |-> TRUE, times |-> <<>>]
        ELSE [err |-> FALSE,
              times |-> [i \in DOMAIN matches |-> Clean(matches[i])]]

\* --------------------------------------------------------- formatMessage
Line(kind, day, month, text) ==
    [kind |-> kind, day |-> day, month |-> month, text |-> text]

RESERVE_URL == "http://turnos.santafe.gov.ar/turnos/web/frontend.php/turnos/index/pk/7539"

\* Each pass appends "\n*Date d/m:*" and then "\n" + Join(times, "\n") + "\n"
\* to a text that ends with a newline: an empty line, the header line, the
\* slot lines (one empty line when there is no slot).
RECURSIVE Blocks(_, _)
Blocks(m, order) ==
    IF Len(order) = 0 THEN <<>>
    ELSE LET date  == Head(order)
             times == m[date]
         IN  <<Line("blank", 0, 0, ""), Line("date", date.Day, date.Month, "")>>
             \o (IF Len(times) = 0 THEN <<Line("blank", 0, 0, "")>>
                 ELSE [i \in DOMAIN times |-> Line("slot", 0, 0, times[i])])
             \o Blocks(m, Tail(order))

\* Variant: the header line prints month/day instead of day/month.
RECURSIVE BlocksMonthDay(_, _)
BlocksMonthDay(m, order) ==
    IF Len(order) = 0 THEN <<>>
    ELSE LET date  == Head(order)
             times == m[date]
         IN  <<Line("blank", 0, 0, ""), Line("date", date.Month, date.Day, "")>>
             \o (IF Len(times) = 0 THEN <<Line("blank", 0, 0, "")>>
                 ELSE [i \in DOMAIN times |-> Line("slot", 0, 0, times[i])])
             \o BlocksMonthDay(m, Tail(order))

formatMessageMonthDay(m, order) ==
    <<Line("greeting", 0, 0, "*Hi there!*"),
      Line("text", 0, 0, "Here are the new available dates:")>>
    \o BlocksMonthDay(m, order)
    \o <<Line("blank", 0, 0, ""), Line("closing", 0, 0, RESERVE_URL)>>

\* order is the order in which range walks the map: any order of its keys.
\* The message as its sequence of lines (the greeting without its emoji).
formatMessage(m, order) ==
    <<Line("greeting", 0, 0, "*Hi there!*"),
      Line("text", 0, 0, "Here are the new available dates:")>>
    \o Blocks(m, order)
    \o <<Line("blank", 0, 0, ""), Line("closing", 0, 0, RESERVE_URL)>>

Orders(S) ==
    {o \in [1..Cardinality(S) -> S] : \A i, j \in DOMAIN o : i # j => o[i] # o[j]}

MsgDates(msg) ==
    {Date(msg[i].month, msg[i].day) : i \in {j \in DOMAIN msg : msg[j].kind = "date"}}

\* ------------------------------------------------------------ next month
\* Variant without the wrap of line 128.
NextMonthNoWrap(c) == c + 1

NextMonth(c) == IF c + 1 = 13 THEN 1 ELSE c + 1

\* ---------------------------------------------------------- environment
\* Calendar months in which the job is run.
ClockMonths == {6, 12}

\* Bodies of the days endpoint: the empty body, and a comma-separated list
\* with empty boundary tokens whose interior tokens are day numerals or
\* the junk "x".
Tokens == {Numeral(d) : d \in Days} \cup {<<"x">>}

RECURSIVE Join(_)
Join(toks) ==
    IF Len(toks) = 0 THEN <<",">>
    ELSE <<",">> \o Head(toks) \o Join(Tail(toks))

Bodies == {<<>>} \cup {Join(t) : t \in SeqsUpTo(Tokens, MaxDates)}

\* The body one token shorter; the empty body is the root.
Parent(b) ==
    IF Len(b) <= 1 THEN <<>>
    ELSE LET cut == CHOOSE k \in 1..(Len(b) - 1) :
                        b[k] = "," /\ \A j \in (k + 1)..(Len(b) - 1) : b[j] # ","
         IN  SubSeq(b, 1, cut)

SlotBodies ==
    {<<"<select>">>,
     <<"value=\"09:00-09:20\"", "value=\"\"", "value=\"10:00-10:20\"">>}

\* Dates a history left by earlier runs may hold: days of the month that
\* is checked, and one day of the month before.
InitDates(c) == {Date(NextMonth(c), d) : d \in Days} \cup {Date(c, 1)}

InitHistories(c) == {h \in SeqsUpTo(InitDates(c), MaxHist) : NoDup(h)}

InitFiles(c) == {FileMissing, FileCorrupt} \cup {FileOk(h) : h \in InitHistories(c)}

\* ------------------------------------------------------------------ state
VARIABLES
    now,            \* time.Now().Month()
    file,           \* history.json
    body,           \* what the days endpoint answers
    pc,             \* where handleCheck stands; "idle": no process runs
    nextMonth,      \* handleCheck: nextMonth
    history,        \* handleCheck: history
    dates,          \* handleCheck: dates
    idx,            \* handleCheck: position of the range loop in dates
    possibleTimes,  \* handleCheck: possibleTimes
    outbox,         \* messages the bot delivered during this run
    result,         \* what handleCheck returned: "none", "nil", "error"
    log,            \* lines written through log during this run
    ops,            \* external calls of this run, in order
    loaded,         \* the history as readHistory returned it
    fileAtStart,    \* history.json when the run started
    outcome,        \* the step that ended the run
    prev,           \* the previous run, if the days endpoint has answered
                    \* the same since: how it ended and what it appended
    everNotified,   \* dates reported by the site and delivered in a message,
                    \* kept in the behaviours that start from an empty history
    startedEmpty    \* history.json held [] before the first run

vars == <<now, file, body, pc, nextMonth, history, dates, idx, possibleTimes,
          outbox, result, log, ops, loaded, fileAtStart, outcome, prev,
          everNotified, startedEmpty>>

\* The dates this run appended to the history it loaded.
NewOf(h, l) == SubSeq(h, Len(l) + 1, Len(h))

EmptyMap == [d \in {} |-> <<>>]

\* One external call of a run: what was called, for which month and day,
\* whether it returned an error, and the body a slot request received.
Op(name, month, day, err, resp) ==
    [op |-> name, month |-> month, day |-> day, err |-> err, resp |-> resp]

NoPrev == [outcome |-> "none", new |-> <<>>, sent |-> {}]

\* The dates of the messages delivered in this run.
SentDates == UNION {MsgDates(outbox[i]) : i \in DOMAIN outbox}

Init ==
    /\ now \in ClockMonths
    /\ file \in InitFiles(now)
    /\ body = <<>>
    /\ pc = "idle"
    /\ nextMonth = 0
    /\ history = <<>>
    /\ dates = <<>>
    /\ idx = 1
    /\ possibleTimes = EmptyMap
    /\ outbox = <<>>
    /\ result = "none"
    /\ log = <<>>
    /\ ops = <<>>
    /\ loaded = <<>>
    /\ fileAtStart = file
    /\ outcome = "none"
    /\ prev = NoPrev
    /\ everNotified = {}
    /\ startedEmpty = (file = FileOk(<<>>))

\* The run ends: handleCheck returns err and main calls log.Fatal(err), which
\* prints the error; said holds the lines logged before the failing call.
Fatal(step, said) ==
    /\ result' = "error"
    /\ outcome' = step
    /\ log' = log \o said \o <<"error">>
    /\ pc' = "done"

\* main, case "check": handleCheck starts (lines 124-130).
StartRun ==
    /\ pc = "idle"
    /\ nextMonth' = NextMonth(now)
    /\ log' = <<"Starting check ...">>
    /\ fileAtStart' = file
    /\ outcome' = "running"
    /\ pc' = "read"
    /\ UNCHANGED <<now, file, body, history, dates, idx, possibleTimes, outbox,
                   result, ops, loaded, prev, everNotified, startedEmpty>>

\* history, err := readHistory() (lines 132-135).
ReadHistory ==
    /\ pc = "read"
    /\ \E privileged \in BOOLEAN :
         LET r == readHistory(file, privileged)
         IN  /\ ops' = Append(ops, Op("read", 0, 0, r.err, <<>>))
             /\ IF r.err
                THEN /\ Fatal("load_err", <<>>)
                     /\ UNCHANGED <<history, loaded>>
                ELSE /\ history' = r.history
                     /\ loaded' = r.history
                     /\ pc' = "dates"
                     /\ UNCHANGED <<result, outcome, log>>
    /\ UNCHANGED <<now, file, body, nextMonth, dates, idx, possibleTimes, outbox,
                   fileAtStart, prev, everNotified, startedEmpty>>

\* dates, err := availableDates(nextMonth) (lines 137-143).
FetchDates ==
    /\ pc = "dates"
    /\ \E neterr \in BOOLEAN :
         LET r == availableDates(nextMonth, [err |-> neterr, body |-> body])
         IN  /\ ops' = Append(ops, Op("dates", nextMonth, 0, r.err, <<>>))
             /\ IF r.err
                THEN /\ Fatal("dates_err", <<"Checking for month">>)
                     /\ UNCHANGED <<dates, idx, possibleTimes>>
                ELSE /\ dates' = r.dates
                     /\ idx' = 1
                     /\ possibleTimes' = EmptyMap
                     /\ log' = log \o <<"Checking for month", "Possible dates">>
                     /\ pc' = "loop"
                     /\ UNCHANGED <<result, outcome>>
    /\ UNCHANGED <<now, file, body, nextMonth, history, outbox, loaded,
                   fileAtStart, prev, everNotified, startedEmpty>>

\* Variant of the loop body that saves the history before it gives up on a
\* failed slot request.
CheckDateSaveOnErr ==
    /\ pc = "loop"
    /\ idx <= Len(dates)
    /\ LET date == dates[idx]
       IN  IF checkHistory(date, history)
           THEN /\ idx' = idx + 1
                /\ UNCHANGED <<history, possibleTimes, ops, log, result, outcome, pc, file>>
           ELSE /\ history' = Append(history, date)
                /\ \E neterr \in BOOLEAN, sb \in SlotBodies :
                     LET r == availableHours(date, [err |-> neterr, body |-> sb])
                     IN  /\ ops' = Append(ops, Op("slots", date.Month, date.Day, r.err,
                                                  IF neterr THEN <<>> ELSE sb))
                         /\ IF r.err
                            THEN /\ Fatal("slots_err", <<"Checking date">>)
                                 /\ file' = writeHistory(history', file, "ok").file
                                 /\ UNCHANGED <<idx, possibleTimes>>
                            ELSE /\ possibleTimes' =
                                       [d \in DOMAIN possibleTimes \cup {date} |->
                                           IF d = date THEN r.times ELSE possibleTimes[d]]
                                 /\ idx' = idx + 1
                                 /\ log' = log \o <<"Checking date", "Available hours">>
                                 /\ UNCHANGED <<result, outcome, pc, file>>
    /\ UNCHANGED <<now, body, nextMonth, dates, outbox, loaded, fileAtStart,
                   prev, everNotified, startedEmpty>>

\* One pass of the body of "for _, date := range dates" (lines 144-157).
CheckDate ==
    /\ pc = "loop"
    /\ idx <= Len(dates)
    /\ LET date == dates[idx]
       IN  IF checkHistory(date, history)
           THEN /\ idx' = idx + 1
                /\ UNCHANGED <<history, possibleTimes, ops, log, result, outcome, pc>>
           ELSE /\ history' = Append(history, date)
                /\ \E neterr \in BOOLEAN, sb \in SlotBodies :
                     LET r == availableHours(date, [err |-> neterr, body |-> sb])
                     IN  /\ ops' = Append(ops, Op("slots", date.Month, date.Day, r.err,
                                                  IF neterr THEN <<>> ELSE sb))
                         /\ IF r.err
                            THEN /\ Fatal("slots_err", <<"Checking date">>)
                                 /\ UNCHANGED <<idx, possibleTimes>>
                            ELSE /\ possibleTimes' =
                                       [d \in DOMAIN possibleTimes \cup {date} |->
                                           IF d = date THEN r.times ELSE possibleTimes[d]]
                                 /\ idx' = idx + 1
                                 /\ log' = log \o <<"Checking date", "Available hours">>
                                 /\ UNCHANGED <<result, outcome, pc>>
    /\ UNCHANGED <<now, file, body, nextMonth, dates, outbox, loaded, fileAtStart,
                   prev, everNotified, startedEmpty>>

\* Variant without the early return on an empty possibleTimes.
DecideAlwaysNotify ==
    /\ pc = "loop"
    /\ idx > Len(dates)
    /\ log' = Append(log, "Sending message ...")
    /\ pc' = "send"
    /\ UNCHANGED <<now, file, body, nextMonth, history, dates, idx, possibleTimes,
                   outbox, result, outcome, ops, loaded, fileAtStart, prev,
                   everNotified, startedEmpty>>

\* Variant that notifies only when some new date has a slot.
DecideNeedsSlots ==
    /\ pc = "loop"
    /\ idx > Len(dates)
    /\ IF \A d \in DOMAIN possibleTimes : Len(possibleTimes[d]) = 0
       THEN /\ log' = Append(log, "Nothing to notify")
            /\ result' = "nil"
            /\ outcome' = "nothing"
            /\ pc' = "done"
       ELSE /\ log' = Append(log, "Sending message ...")
            /\ pc' = "send"
            /\ UNCHANGED <<result, outcome>>
    /\ UNCHANGED <<now, file, body, nextMonth, history, dates, idx, possibleTimes,
                   outbox, ops, loaded, fileAtStart, prev,
                   everNotified, startedEmpty>>

\* The loop is over: if len(possibleTimes) == 0 (lines 159-167).
Decide ==
    /\ pc = "loop"
    /\ idx > Len(dates)
    /\ IF DOMAIN possibleTimes = {}
       THEN /\ log' = Append(log, "Nothing to notify")
            /\ result' = "nil"
            /\ outcome' = "nothing"
            /\ pc' = "done"
       ELSE /\ log' = Append(log, "Sending message ...")
            /\ pc' = "send"
            /\ UNCHANGED <<result, outcome>>
    /\ UNCHANGED <<now, file, body, nextMonth, history, dates, idx, possibleTimes,
                   outbox, ops, loaded, fileAtStart, prev,
                   everNotified, startedEmpty>>

\* Variant that does not look at the error of bot.Send.
SendMessageIgnoreErr ==
    /\ pc = "send"
    /\ \E order \in Orders(DOMAIN possibleTimes), senderr \in BOOLEAN :
         LET msg == formatMessage(possibleTimes, order)
         IN  /\ ops' = Append(ops, Op("send", 0, 0, senderr, <<>>))
             /\ outbox' = IF senderr THEN outbox ELSE Append(outbox, msg)
             /\ everNotified' = IF startedEmpty /\ ~senderr
                                 THEN everNotified \cup (MsgDates(msg) \cap Range(dates))
                                 ELSE everNotified
    /\ log' = Append(log, "Message sent!")
    /\ pc' = "write"
    /\ UNCHANGED <<now, file, body, nextMonth, history, dates, idx, possibleTimes,
                   result, outcome, loaded, fileAtStart, prev, startedEmpty>>

\* _, err = bot.Send(msg) (lines 164-172).
SendMessage ==
    /\ pc = "send"
    /\ \E order \in Orders(DOMAIN possibleTimes), senderr \in BOOLEAN :
         LET msg == formatMessage(possibleTimes, order)
         IN  /\ ops' = Append(ops, Op("send", 0, 0, senderr, <<>>))
             /\ IF senderr
                THEN /\ Fatal("send_err", <<>>)
                     /\ UNCHANGED <<outbox, everNotified>>
                ELSE /\ outbox' = Append(outbox, msg)
                     /\ everNotified' = IF startedEmpty
                                       THEN everNotified \cup (MsgDates(msg) \cap Range(dates))
                                       ELSE everNotified
                     /\ log' = Append(log, "Message sent!")
                     /\ pc' = "write"
                     /\ UNCHANGED <<result, outcome>>
    /\ UNCHANGED <<now, file, body, nextMonth, history, dates, idx, possibleTimes,
                   loaded, fileAtStart, prev, startedEmpty>>

\* writeHistory(history); return nil (lines 174-178).
SaveHistory ==
    /\ pc = "write"
    /\ \E io \in WriteOutcomes :
         LET w == writeHistory(history, file, io)
         IN  /\ ops' = Append(ops, Op("write", 0, 0, w.err, <<>>))
             /\ file' = w.file
             /\ outcome' = IF w.err THEN "save_failed" ELSE "saved"
    /\ log' = log \o <<"Updating history with new dates", "History saved!">>
    /\ result' = "nil"
    /\ pc' = "done"
    /\ UNCHANGED <<now, body, nextMonth, history, dates, idx, possibleTimes, outbox,
                   loaded, fileAtStart, prev, everNotified, startedEmpty>>

\* The process exits: its memory is gone, history.json stays.
Exit ==
    /\ pc = "done"
    /\ prev' = [outcome |-> outcome, new |-> NewOf(history, loaded),
                sent |-> SentDates]
    /\ pc' = "idle"
    /\ nextMonth' = 0
    /\ history' = <<>>
    /\ dates' = <<>>
    /\ idx' = 1
    /\ possibleTimes' = EmptyMap
    /\ outbox' = <<>>
    /\ result' = "none"
    /\ log' = <<>>
    /\ ops' = <<>>
    /\ loaded' = <<>>
    /\ outcome' = "none"
    /\ fileAtStart' = file
    /\ UNCHANGED <<now, file, body, everNotified, startedEmpty>>

\* Between two runs the site opens or closes a day: the body of the days
\* endpoint gains or loses its last token.
RemoteChange ==
    /\ pc = "idle"
    /\ \E b \in Bodies :
         /\ Parent(b) = body \/ (b # body /\ Parent(body) = b)
         /\ body' = b
    /\ prev' = NoPrev
    /\ UNCHANGED <<now, file, pc, nextMonth, history, dates, idx, possibleTimes,
                   outbox, result, log, ops, loaded, fileAtStart, outcome,
                   everNotified, startedEmpty>>

Next ==
    \/ StartRun
    \/ RemoteChange
    \/ Exit
    \/ ReadHistory
    \/ FetchDates
    \/ CheckDate
    \/ Decide
    \/ SendMessage
    \/ SaveHistory

Spec == Init /\ [][Next]_vars

\* ------------------------------------------------------------ properties
Done == pc = "done"

\* The dates whose slots this run has requested.
SlotReqs ==
    {Date(ops[i].month, ops[i].day) : i \in {j \in DOMAIN ops : ops[j].op = "slots"}}

Called(name) == \E i \in DOMAIN ops : ops[i].op = name

\* availableDates has returned without error in this run (log line 142).
DatesReturned == \E i \in DOMAIN log : log[i] = "Possible dates"

\* The returned dates that the loaded history does not hold.
Fresh == {d \in Range(dates) : d \notin Range(loaded)}

PersistedDates == IF file.status = "ok" THEN Range(Unmarshal(file.data)) ELSE {}

\* C1: a date held by the history loaded at the start of a run is never the
\* subject of a slot request of that run and never a date of the message the
\* run delivers, also when the days endpoint reports it.
C1_Dedup ==
    \A d \in Range(loaded) : d \notin SlotReqs /\ d \notin SentDates

\* A finished run that delivered a message although the site also reported a
\* date the loaded history held.
C1_Witness ==
    /\ Done
    /\ Len(outbox) = 1
    /\ \E d \in Range(loaded) : d \in Range(dates)

\* C2 as stated: history.json is written only after the message of the run
\* was delivered, and a run that delivered no message ends with an error
\* and leaves history.json as it found it.
C2_Original ==
    /\ (Called("write") \/ file # fileAtStart) => Len(outbox) = 1
    /\ (Done /\ Len(outbox) = 0) => (result = "error" /\ file = fileAtStart)

\* C2 as amended: history.json is written only after the message of the run
\* was delivered; a run whose dispatch fails, or that fails before the
\* dispatch, ends with an error; a run that skips the dispatch because no
\* returned date is new ends without error; in each of these cases
\* history.json is left as it was found, whatever was appended in memory.
C2_SaveOnlyAfterDispatch ==
    /\ (Called("write") \/ file # fileAtStart) =>
           /\ Len(outbox) = 1
           /\ \E i, j \in DOMAIN ops : i < j /\ ops[i].op = "send" /\ ops[j].op = "write"
    /\ (Done /\ Len(outbox) = 0) =>
           /\ file = fileAtStart
           /\ ~Called("write")
           /\ \/ result = "error"
              \/ result = "nil" /\ DatesReturned /\ Fresh = {} /\ ~Called("send")
    /\ (Done /\ Called("send") /\ Len(outbox) = 0) => result = "error"

\* A run whose dispatch failed after dates were appended in memory.
C2_Witness ==
    /\ Done
    /\ Called("send")
    /\ Len(outbox) = 0
    /\ Len(history) > Len(loaded)
    /\ fileAtStart.status = "ok"

\* C3 as stated: a run that follows another run with the days endpoint
\* answering the same delivers no message and leaves history.json as it is.
C3_Original ==
    (Done /\ prev.outcome # "none") => (Len(outbox) = 0 /\ file = fileAtStart)

\* C3 as amended: when the first of two runs over the same remote data ended
\* without any failure (nothing to notify, or message delivered and history
\* saved), the second delivers no message and leaves history.json as it is.
C3_Idempotent ==
    (prev.outcome \in {"nothing", "saved"}) =>
        /\ Len(outbox) = 0
        /\ ~Called("send")
        /\ ~Called("write")
        /\ file = fileAtStart

\* The second run ends with nothing to notify after the first saved dates
\* that the site still reports.
C3_Witness ==
    /\ Done
    /\ prev.outcome = "saved"
    /\ Len(prev.new) > 0
    /\ result = "nil"
    /\ Len(dates) > 0

\* C4: when availableDates returns and every returned date is in the loaded
\* history (or none is returned), the run ends without error, sends nothing
\* and does not write history.json.
C4_NothingNew ==
    (Done /\ DatesReturned /\ Fresh = {}) =>
        /\ result = "nil"
        /\ Len(outbox) = 0
        /\ ~Called("send")
        /\ ~Called("write")
        /\ file = fileAtStart

\* A finished run to which the site reported only dates the history held.
C4_Witness ==
    /\ Done
    /\ DatesReturned
    /\ Len(dates) > 0
    /\ Fresh = {}

\* C5: starting from an empty history.json, every date history.json holds
\* was reported by the site in some run and was part of a message delivered
\* in that run.
C5_HistoryInvariant ==
    startedEmpty => PersistedDates \subseteq everNotified

\* history.json, empty at first, holds two dates.
C5_Witness ==
    /\ startedEmpty
    /\ file.status = "ok"
    /\ Len(file.data) >= 2

\* C6: a history loaded without duplicates stays without duplicates, in
\* memory and on disk, also when one response names a day twice.
C6_NoDuplicates ==
    NoDup(loaded) =>
        /\ NoDup(history)
        /\ file.status = "ok" => NoDup(Unmarshal(file.data))

\* The site named a new day twice in one response and the run saved.
C6_Witness ==
    /\ Done
    /\ Called("write")
    /\ file = FileOk(history)
    /\ \E i, j \in DOMAIN dates : i < j /\ dates[i] = dates[j] /\ dates[i] \notin Range(loaded)

\* C7: a failed slot request ends the run with an error, with no dispatch
\* and no save, history.json untouched; the next run over the same remote
\* dates loads the same history, so the dates the failed run had appended
\* are new again, in the same order, and their slots are requested again.
C7_SlotFailure ==
    /\ (Done /\ outcome = "slots_err") =>
           /\ result = "error"
           /\ Len(history) > Len(loaded)
           /\ Len(outbox) = 0
           /\ ~Called("send")
           /\ ~Called("write")
           /\ file = fileAtStart
    /\ (prev.outcome = "slots_err" /\ DatesReturned) =>
           /\ Range(prev.new) \subseteq Fresh
           /\ \/ IsPrefix(prev.new, NewOf(history, loaded))
              \/ IsPrefix(NewOf(history, loaded), prev.new)
           /\ (pc \in {"send", "write"} \/ (Done /\ result = "nil")) =>
                  /\ IsPrefix(prev.new, NewOf(history, loaded))
                  /\ Range(prev.new) \subseteq SlotReqs
                  /\ SlotReqs = Fresh

\* After a run that failed on a slot request, the next run got all its slots.
C7_Witness ==
    /\ prev.outcome = "slots_err"
    /\ Len(prev.new) > 0
    /\ pc = "send"
    /\ Range(prev.new) \subseteq SlotReqs

\* C8 as stated: a failed save after a delivered message is logged, and the
\* run still returns no error.
C8_SaveFailureLogged ==
    (Done /\ outcome = "save_failed") =>
        /\ result = "nil"
        /\ \E i \in DOMAIN log : log[i] = "error"

\* C9: after a run that delivered a message and failed to save, the next run
\* that sees the same remote dates and ends without error delivers a message
\* that holds the same dates; and a failed save puts no date in history.json.
C9_AtLeastOnce ==
    /\ (Done /\ prev.outcome = "save_failed" /\ result = "nil") =>
           /\ Len(outbox) = 1
           /\ prev.sent # {}
           /\ prev.sent \subseteq MsgDates(outbox[1])
    /\ (Done /\ outcome = "save_failed") =>
           PersistedDates \subseteq Range(loaded)

\* The run after a failed save delivered a message again.
C9_Witness ==
    /\ Done
    /\ prev.outcome = "save_failed"
    /\ result = "nil"
    /\ Len(outbox) = 1

\* C10 as stated: with no history.json the run goes on with an empty
\* history: it asks the site for dates and does not end on the load failure.
C10_MissingFileIsEmpty ==
    (Done /\ fileAtStart.status = "missing") =>
        /\ Called("dates")
        /\ outcome # "load_err"

\* The external calls of this run that returned an error.
Failed(name) == \E i \in DOMAIN ops : ops[i].op = name /\ ops[i].err

\* C11: a failed load, date fetch (transport or parse), slot fetch or
\* dispatch is the last external call of its run and the run returns an
\* error; a run returns an error only after such a failure; a failed save
\* is the one failure after which the run returns no error.
C11_FatalPropagation ==
    /\ \A i \in DOMAIN ops :
           (ops[i].err /\ ops[i].op # "write") =>
               /\ i = Len(ops)
               /\ Done
               /\ result = "error"
    /\ \A i \in DOMAIN ops :
           (ops[i].err /\ ops[i].op = "write") =>
               /\ i = Len(ops)
               /\ Done
               /\ result = "nil"
    /\ (Done /\ result = "error") =>
           /\ Len(ops) > 0
           /\ ops[Len(ops)].err
           /\ ops[Len(ops)].op \in {"read", "dates", "slots", "send"}
    /\ Failed("read")  => ~(Called("dates") \/ Called("slots") \/ Called("send") \/ Called("write"))
    /\ Failed("dates") => ~(Called("slots") \/ Called("send") \/ Called("write"))
    /\ Failed("slots") => ~(Called("send") \/ Called("write"))
    /\ Failed("send")  => ~Called("write")

\* A run that failed on its second slot request, after the first succeeded.
C11_Witness ==
    /\ Done
    /\ result = "error"
    /\ Failed("slots")
    /\ \E i \in DOMAIN ops : ops[i].op = "slots" /\ ~ops[i].err

\* The first occurrences, in order, of the elements of s that l does not hold.
RECURSIVE FirstNew(_, _)
FirstNew(s, l) ==
    IF Len(s) = 0 THEN <<>>
    ELSE LET rest == FirstNew(SubSeq(s, 1, Len(s) - 1), l)
             last == s[Len(s)]
         IN  IF last \in Range(l) \/ last \in Range(rest) THEN rest
             ELSE Append(rest, last)

\* C12: after a run that found a new date, delivered its message and saved,
\* history.json holds the loaded history followed by the returned dates it
\* did not hold, each once, in the order the site returned them.
C12_SavedHistory ==
    (Done /\ Called("write") /\ ~Failed("write")) =>
        /\ file.status = "ok"
        /\ Unmarshal(file.data) = loaded \o FirstNew(dates, loaded)
        /\ Len(FirstNew(dates, loaded)) > 0
        /\ Len(outbox) = 1

\* A saved run that loaded a history and found two new dates, the second
\* of them named twice by the site or not.
C12_Witness ==
    /\ Done
    /\ Called("write")
    /\ ~Failed("write")
    /\ Len(loaded) > 0
    /\ Len(FirstNew(dates, loaded)) >= 2

\* The slot lines availableHours owes for a body: its matching fragments, in
\* the order of the body, each as " - <range>".
IsTimeFragment(frag) ==
    frag \in {"value=\"09:00-09:20\"", "value=\"10:00-10:20\""}

SlotText(frag) ==
    IF frag = "value=\"09:00-09:20\"" THEN " - 09:00-09:20" ELSE " - 10:00-10:20"

ExpectedSlots(resp) ==
    LET hits == SelectSeq(resp, IsTimeFragment)
    IN  [i \in DOMAIN hits |-> SlotText(hits[i])]

\* The body the slot request for date d received in this run.
SlotBodyOf(d) ==
    LET i == CHOOSE j \in DOMAIN ops :
                 ops[j].op = "slots" /\ ops[j].month = d.Month /\ ops[j].day = d.Day
    IN  ops[i].resp

\* msg holds, from line i on, the header of d, its slot lines in order, and
\* then a line that is no slot line.
BlockAt(msg, i, d) ==
    LET want == ExpectedSlots(SlotBodyOf(d))
    IN  /\ msg[i].kind = "date"
        /\ msg[i].day = d.Day
        /\ msg[i].month = d.Month
        /\ i + Len(want) + 1 <= Len(msg)
        /\ \A k \in DOMAIN want :
               msg[i + k].kind = "slot" /\ msg[i + k].text = want[k]
        /\ msg[i + Len(want) + 1].kind # "slot"

\* C13: a run delivers at most one message; the message starts with the
\* greeting, ends with the line that holds the reservation URL, and holds
\* for each new date of the run, and for no other date, exactly one header
\* line "Date <day>/<month>:" followed by the slot lines of that date in the
\* order of the slot source.
C13_MessageContent ==
    /\ Len(outbox) <= 1
    /\ Cardinality({i \in DOMAIN ops : ops[i].op = "send"}) <= 1
    /\ \A n \in DOMAIN outbox :
         LET msg     == outbox[n]
             headers == {i \in DOMAIN msg : msg[i].kind = "date"}
         IN  /\ msg[1].kind = "greeting"
             /\ msg[Len(msg)].kind = "closing"
             /\ msg[Len(msg)].text = RESERVE_URL
             /\ \A i \in DOMAIN msg : msg[i].kind \in {"greeting", "closing"} => i \in {1, Len(msg)}
             /\ \A d \in Range(NewOf(history, loaded)) :
                    /\ Cardinality({i \in headers : msg[i].day = d.Day /\ msg[i].month = d.Month}) = 1
                    /\ \E i \in headers : BlockAt(msg, i, d)
             /\ \A i \in headers :
                    Date(msg[i].month, msg[i].day) \in Range(NewOf(history, loaded))
             /\ Cardinality(headers) = Len(NewOf(history, loaded))

\* A delivered message about two new dates, one with slots and one without.
C13_Witness ==
    /\ Len(outbox) = 1
    /\ \E d, e \in DOMAIN possibleTimes :
           /\ d # e
           /\ Len(possibleTimes[d]) = 2
           /\ Len(possibleTimes[e]) = 0

\* ------------------------------------------------- every calendar month
\* The job run in any month of the year, over a history.json that holds
\* one date of the month before the one that is checked.
InitClock ==
    /\ now \in 1..12
    /\ file = FileOk(<<Date(now, 1)>>)
    /\ body = <<>>
    /\ pc = "idle"
    /\ nextMonth = 0
    /\ history = <<>>
    /\ dates = <<>>
    /\ idx = 1
    /\ possibleTimes = EmptyMap
    /\ outbox = <<>>
    /\ result = "none"
    /\ log = <<>>
    /\ ops = <<>>
    /\ loaded = <<>>
    /\ fileAtStart = file
    /\ outcome = "none"
    /\ prev = NoPrev
    /\ everNotified = {}
    /\ startedEmpty = FALSE

SpecClock == InitClock /\ [][Next]_vars

\* C14: in calendar month c the run asks the site for month c + 1 when
\* c < 12 and for month 1 when c = 12: always a month of 1..12, never 13;
\* the dates it gets carry that month.
C14_TargetMonth ==
    LET target == IF now < 12 THEN now + 1 ELSE 1
    IN  /\ now \in 1..12
        /\ pc # "idle" =>
               /\ nextMonth = target
               /\ nextMonth \in 1..12
               /\ nextMonth # 13
        /\ \A i \in DOMAIN ops : ops[i].op = "dates" => ops[i].month = target
        /\ \A i \in DOMAIN dates : dates[i].Month = target

\* A run in December that asked the site for January and got a date.
C14_Witness ==
    /\ now = 12
    /\ \E i \in DOMAIN ops : ops[i].op = "dates" /\ ops[i].month = 1
    /\ Len(dates) > 0

\* ------------------------------------------- order of the operations
\* The place of an operation in handleCheck.
Rank(name) ==
    IF name = "read" THEN 0
    ELSE IF name = "dates" THEN 1
    ELSE IF name = "slots" THEN 2
    ELSE IF name = "send" THEN 3
    ELSE 4

\* The slot requests of this run, in the order they were issued.
SlotOps == SelectSeq(ops, LAMBDA o : o.op = "slots")

SlotDatesInOrder == [i \in DOMAIN SlotOps |-> Date(SlotOps[i].month, SlotOps[i].day)]

Count(name) == Cardinality({i \in DOMAIN ops : ops[i].op = name})

\* The loop over the returned dates has run to its end in this run.
LoopOver ==
    \/ pc \in {"send", "write"}
    \/ pc = "loop" /\ idx > Len(dates)
    \/ Done /\ DatesReturned /\ ~Failed("slots")

\* C18: the operations of a run come in the order read, date fetch, slot
\* requests, dispatch, write, with at most one date fetch, one dispatch and
\* one write; the slot requests are for the distinct new dates, one each, in
\* the order the site returned them, each answered before the next is
\* issued and none issued after a failed one; the dispatch comes only after
\* a slot request for every new date has succeeded, and the write only
\* after a dispatch that succeeded.
C18_OperationOrder ==
    /\ \A i, j \in DOMAIN ops : i < j => Rank(ops[i].op) <= Rank(ops[j].op)
    /\ Count("dates") <= 1
    /\ Count("send") <= 1
    /\ Count("write") <= 1
    /\ IsPrefix(SlotDatesInOrder, FirstNew(dates, loaded))
    /\ \A i \in DOMAIN SlotOps : SlotOps[i].err => i = Len(SlotOps)
    /\ Called("slots") => (Called("dates") /\ ~Failed("dates"))
    /\ LoopOver => SlotDatesInOrder = FirstNew(dates, loaded)
    /\ Called("send") =>
           /\ SlotDatesInOrder = FirstNew(dates, loaded)
           /\ ~Failed("slots")
           /\ ops[Len(ops)].op \in {"send", "write"}
    /\ Called("write") => (Called("send") /\ ~Failed("send"))

\* A run that fetched the dates, asked the slots of two new dates, sent the
\* message and wrote the history.
C18_Witness ==
    /\ Done
    /\ Len(ops) = 6
    /\ Len(SlotOps) = 2
    /\ ops[5].op = "send"
    /\ ops[6].op = "write"

\* C19: once the loop is over, the notification is dispatched exactly when
\* a returned date is absent from the loaded history, whatever the slots
\* are; the delivered message names every new date, one without slots by
\* its header and no slot line; after the save the new dates are in
\* history.json, and a run that follows a saved one over the same remote
\* data dispatches nothing and names none of them.
C19_NotifyIffNew ==
    /\ pc = "send" => Fresh # {}
    /\ (LoopOver /\ pc \notin {"loop", "send"}) => (Called("send") <=> Fresh # {})
    /\ \A n \in DOMAIN outbox :
         /\ MsgDates(outbox[n]) = Fresh
         /\ \A d \in Fresh : Len(possibleTimes[d]) = 0 =>
                \E i \in DOMAIN outbox[n] :
                    /\ outbox[n][i] = Line("date", d.Day, d.Month, "")
                    /\ outbox[n][i + 1].kind = "blank"
    /\ (Done /\ Called("write") /\ ~Failed("write")) => Fresh \subseteq PersistedDates
    /\ SentDates \cap Range(loaded) = {}
    /\ prev.outcome = "saved" =>
           /\ prev.sent \subseteq PersistedDates
           /\ ~Called("send")
           /\ SentDates \cap prev.sent = {}

\* A saved run whose message names a new date that has no slot, now in
\* history.json.
C19_Witness ==
    /\ Done
    /\ Called("write")
    /\ ~Failed("write")
    /\ \E d \in DOMAIN possibleTimes :
           /\ Len(possibleTimes[d]) = 0
           /\ \A e \in DOMAIN possibleTimes : Len(possibleTimes[e]) = 0
           /\ d \in SentDates
           /\ d \in PersistedDates
           /\ d \notin Range(loaded)

\* ------------------------------------------- the helpers, one call each
\* Tokens of a days response with what strconv.Atoi owes for each: the
\* empty token, junk, a negative number, day numerals, and the tokens of
\* the bodies ",5,12,20," and ",5,abc,".
PTokenTable ==
    {[text |-> <<>>, ok |-> FALSE, val |-> 0],
     [text |-> <<"x">>, ok |-> FALSE, val |-> 0],
     [text |-> <<"a", "b", "c">>, ok |-> FALSE, val |-> 0],
     [text |-> <<"-", "1">>, ok |-> TRUE, val |-> 0 - 1],
     [text |-> <<"5">>, ok |-> TRUE, val |-> 5],
     [text |-> <<"1", "2">>, ok |-> TRUE, val |-> 12],
     [text |-> <<"2", "0">>, ok |-> TRUE, val |-> 20]}
    \cup {[text |-> Numeral(d), ok |-> TRUE, val |-> d] : d \in Days}

\* Tokens the bounded bodies are made of.
PTokens ==
    {<<>>, <<"x">>, <<"-", "1">>, <<"1", "2">>} \cup {Numeral(d) : d \in Days}

RECURSIVE JoinCommas(_)
JoinCommas(toks) ==
    IF Len(toks) = 0 THEN <<>>
    ELSE IF Len(toks) = 1 THEN toks[1]
    ELSE toks[1] \o <<",">> \o JoinCommas(Tail(toks))

ExampleBody == <<",", "5", ",", "1", "2", ",", "2", "0", ",">>

ExampleBadBody == <<",", "5", ",", "a", "b", "c", ",">>

\* Bodies of 1 to MaxDates + 2 tokens, and the two bodies of the examples.
ParseBodies ==
    {JoinCommas(t) : t \in SeqsUpTo(PTokens, MaxDates + 2) \ {<<>>}}
    \cup {ExampleBody, ExampleBadBody}

ParseMonths == {3} \cup {NextMonth(c) : c \in ClockMonths}

\* Dates of two months, for histories of any shape (duplicates included).
PureDates == {Date(m, d) : m \in {3, 4}, d \in Days}

PureHistories == SeqsUpTo(PureDates, MaxHist)

PureFiles == {FileMissing, FileCorrupt, FileOk(<<>>), FileOk(<<Date(3, 1)>>)}

InitPure ==
    /\ now = 3
    /\ idx = 1
    /\ possibleTimes = EmptyMap
    /\ outbox = <<>>
    /\ log = <<>>
    /\ ops = <<>>
    /\ loaded = <<>>
    /\ outcome = "none"
    /\ prev = NoPrev
    /\ everNotified = {}
    /\ startedEmpty = FALSE
    /\ result = "none"
    /\ \/ /\ pc = "parse"
          /\ body \in ParseBodies
          /\ nextMonth \in ParseMonths
          /\ history = <<>>
          /\ dates = <<>>
          /\ file = FileMissing
       \/ /\ pc = "member"
          /\ history \in PureHistories
          /\ dates \in {<<d>> : d \in PureDates}
          /\ body = <<>>
          /\ nextMonth = 0
          /\ file = FileMissing
       \/ /\ pc = "save"
          /\ history \in PureHistories
          /\ file \in PureFiles
          /\ dates = <<>>
          /\ body = <<>>
          /\ nextMonth = 0
    /\ fileAtStart = file

\* dates, err := availableDates(nextMonth), the site answering body.
ParseDates ==
    /\ pc = "parse"
    /\ LET r == availableDates(nextMonth, [err |-> FALSE, body |-> body])
       IN  /\ dates' = r.dates
           /\ result' = IF r.err THEN "error" ELSE "nil"
    /\ pc' = "parsed"
    /\ UNCHANGED <<now, file, body, nextMonth, history, idx, possibleTimes, outbox,
                   log, ops, loaded, fileAtStart, outcome, prev, everNotified,
                   startedEmpty>>

\* checkHistory(dates[1], history).
Membership ==
    /\ pc = "member"
    /\ result' = IF checkHistory(dates[1], history) THEN "true" ELSE "false"
    /\ pc' = "membered"
    /\ UNCHANGED <<now, file, body, nextMonth, history, dates, idx, possibleTimes,
                   outbox, log, ops, loaded, fileAtStart, outcome, prev,
                   everNotified, startedEmpty>>

\* err := writeHistory(history).
SaveStep ==
    /\ pc = "save"
    /\ \E io \in WriteOutcomes :
         LET w == writeHistory(history, file, io)
         IN  /\ file' = w.file
             /\ ops' = Append(ops, Op("write", 0, 0, w.err, <<>>))
    /\ pc' = "load"
    /\ UNCHANGED <<now, body, nextMonth, history, dates, idx, possibleTimes, outbox,
                   result, log, loaded, fileAtStart, outcome, prev, everNotified,
                   startedEmpty>>

\* loaded, err := readHistory(), right after the save.
LoadStep ==
    /\ pc = "load"
    /\ \E privileged \in BOOLEAN :
         LET r == readHistory(file, privileged)
         IN  /\ loaded' = r.history
             /\ result' = IF r.err THEN "error" ELSE "nil"
             /\ ops' = Append(ops, Op("read", 0, 0, r.err, <<>>))
    /\ pc' = "loaded"
    /\ UNCHANGED <<now, file, body, nextMonth, history, dates, idx, possibleTimes,
                   outbox, log, fileAtStart, outcome, prev, everNotified,
                   startedEmpty>>

NextPure ==
    \/ ParseDates
    \/ Membership
    \/ SaveStep
    \/ LoadStep

SpecPure == InitPure /\ [][NextPure]_vars

\* What Atoi owes for a token, read from the table.
TokenOk(tok) == \E e \in PTokenTable : e.text = tok /\ e.ok

TokenVal(tok) == (CHOOSE e \in PTokenTable : e.text = tok).val

\* C15: with the body cut at its commas into n tokens, availableDates
\* returns no date and no error when n < 2; otherwise, when every token
\* but the first and the last is a decimal integer, it returns one Date of
\* the month per such token, in order, and when one of them is not it
\* returns an error and no date.
C15_Parsing ==
    pc = "parsed" =>
        LET raw      == Split(body)
            n        == Len(raw)
            interior == [i \in 1..(n - 2) |-> raw[i + 1]]
        IN  /\ JoinCommas(raw) = body
            /\ \A i \in DOMAIN raw : \A k \in DOMAIN raw[i] : raw[i][k] # ","
            /\ n < 2 => (result = "nil" /\ dates = <<>>)
            /\ (n >= 2 /\ \A i \in DOMAIN interior : TokenOk(interior[i])) =>
                   /\ result = "nil"
                   /\ Len(dates) = n - 2
                   /\ \A i \in DOMAIN dates :
                          dates[i] = Date(nextMonth, TokenVal(interior[i]))
            /\ (n >= 2 /\ \E i \in DOMAIN interior : ~TokenOk(interior[i])) =>
                   (result = "error" /\ dates = <<>>)

\* The body ",5,12,20," parsed for month 3.
C15_Witness ==
    /\ pc = "parsed"
    /\ body = ExampleBody
    /\ nextMonth = 3
    /\ result = "nil"
    /\ dates = <<Date(3, 5), Date(3, 12), Date(3, 20)>>

\* C16 as stated: a save that succeeds, followed by a load, yields the
\* saved history, element by element and in order.
C16_RoundTrip ==
    (pc = "loaded" /\ ~ops[1].err) => (result = "nil" /\ loaded = history)

\* C17: checkHistory(D, H) is true exactly when an element of H has the
\* month and the day of D.
C17_Membership ==
    pc = "membered" =>
        LET D == dates[1]
        IN  (result = "true") <=>
                (\E i \in DOMAIN history :
                     history[i].Month = D.Month /\ history[i].Day = D.Day)

\* A date absent from a history that holds its day in another month and its
\* month with another day.
C17_Witness ==
    /\ pc = "membered"
    /\ result = "false"
    /\ \E i \in DOMAIN history :
           history[i].Day = dates[1].Day /\ history[i].Month # dates[1].Month
    /\ \E i \in DOMAIN history :
           history[i].Month = dates[1].Month /\ history[i].Day # dates[1].Day

====
